---- MODULE Spec2Model ----
(***************************************************************************)
(* Model of the maze game engine: the grid (src/src/maze.py), the actor    *)
(* (src/src/character.py) and the session orchestrator (src/src/game.py).  *)
(* Strings that the code inspects character by character (direction names, *)
(* layout rows) are sequences of one-character strings.                    *)
(***************************************************************************)
EXTENDS Integers, Sequences, FiniteSets, TLC

\* ------------------------------------------------------------------ bounds
\* Largest value of Character.moves_made explored by the model.
MaxMoves == 7

\* ------------------------------------------------- maze.py: cells, positions
EMPTY == "EMPTY"
WALL == "WALL"
START == "START"
EXIT == "EXIT"
KEY == "KEY"

CellType == {EMPTY, WALL, START, EXIT, KEY}

\* CellType.value: the display character of a cell kind.
CellValue(cell_type) ==
    CASE cell_type = EMPTY -> "."
      [] cell_type = WALL -> "#"
      [] cell_type = START -> "S"
      [] cell_type = EXIT -> "E"
      [] cell_type = KEY -> "K"

Position(x, y) == [x |-> x, y |-> y]

\* Position.__add__
PosAdd(p, q) == Position(p.x + q.x, p.y + q.y)

\* The keys of the DIRECTIONS dict, in insertion order.
DirectionNames == << <<"u", "p">>, <<"d", "o", "w", "n">>,
                     <<"r", "i", "g", "h", "t">>, <<"l", "e", "f", "t">> >>

DirectionKeys == {DirectionNames[i] : i \in DOMAIN DirectionNames}

\* DIRECTIONS[name]
DIRECTIONS(name) ==
    CASE name = <<"u", "p">> -> Position(0, -1)
      [] name = <<"d", "o", "w", "n">> -> Position(0, 1)
      [] name = <<"r", "i", "g", "h", "t">> -> Position(1, 0)
      [] name = <<"l", "e", "f", "t">> -> Position(-1, 0)

\* str.lower() on one character (the letters the inputs use).
LowerChar(c) ==
    CASE c = "U" -> "u" [] c = "P" -> "p" [] c = "D" -> "d" [] c = "O" -> "o"
      [] c = "W" -> "w" [] c = "N" -> "n" [] c = "R" -> "r" [] c = "I" -> "i"
      [] c = "G" -> "g" [] c = "H" -> "h" [] c = "T" -> "t" [] c = "L" -> "l"
      [] c = "E" -> "e" [] c = "F" -> "f"
      [] OTHER -> c

\* str.lower()
Lower(s) == [i \in DOMAIN s |-> LowerChar(s[i])]

\* Bounds accepted by Maze.__post_init__.
MinDim == 5
MaxDim == 10

\* Maze.__post_init__: TRUE iff construction does not raise ValueError.
ValidDims(width, height) ==
    /\ MinDim <= width /\ width <= MaxDim
    /\ MinDim <= height /\ height <= MaxDim

\* Maze.is_valid_position
is_valid_position(maze, position) ==
    /\ 0 <= position.x /\ position.x < maze.width
    /\ 0 <= position.y /\ position.y < maze.height

\* A variant of Maze.is_walkable that only lets the actor onto Empty cells.
is_walkable_only_empty(maze, position) ==
    IF ~is_valid_position(maze, position)
    THEN FALSE
    ELSE maze.grid[position.y][position.x] = EMPTY

\* A variant of Maze.is_walkable that lets the actor onto every cell of the
\* grid, walls included.
is_walkable_in_bounds(maze, position) ==
    is_valid_position(maze, position)

\* Maze.is_walkable
is_walkable(maze, position) ==
    IF ~is_valid_position(maze, position)
    THEN FALSE
    ELSE maze.grid[position.y][position.x] # WALL

\* Maze.get_cell (callers in the model only pass in-bounds positions)
get_cell(maze, position) == maze.grid[position.y][position.x]

\* self.grid[y][x] = cell_type
SetGrid(maze, x, y, cell_type) ==
    [maze EXCEPT !.grid[y][x] = cell_type]

\* Maze.has_key_at
has_key_at(maze, position) == position \in maze.key_positions

\* A variant of Maze.is_exit that opens the exit only once every key is taken.
is_exit_needs_keys(maze, position) ==
    position = maze.exit_position /\ maze.key_positions = {}

\* Maze.is_exit
is_exit(maze, position) == position = maze.exit_position

\* A variant of Maze.remove_key that forgets to clear the grid cell.
remove_key_set_only(maze, position) ==
    IF position \in maze.key_positions
    THEN [maze EXCEPT !.key_positions = @ \ {position}]
    ELSE maze

\* A variant of Maze.remove_key that clears the cell whether or not it held
\* a key.
remove_key_clears_always(maze, position) ==
    IF is_valid_position(maze, position)
    THEN [maze EXCEPT !.key_positions = @ \ {position},
                      !.grid[position.y][position.x] = EMPTY]
    ELSE maze

\* Maze.remove_key: the maze afterwards.
remove_key(maze, position) ==
    IF position \in maze.key_positions
    THEN [maze EXCEPT !.key_positions = @ \ {position},
                      !.grid[position.y][position.x] = EMPTY]
    ELSE maze

\* Maze.remove_key: the return value.
remove_key_ret(maze, position) == position \in maze.key_positions

\* ---------------------------------------------- maze.py: the default layout
\* cls(width=width, height=height): the dataclass field defaults.
NewMaze(width, height) ==
    [width |-> width, height |-> height, grid |-> <<>>,
     start_position |-> Position(0, 0), exit_position |-> Position(0, 0),
     key_positions |-> {}]

\* Maze._initialize_empty_grid
initialize_empty_grid(maze) ==
    [maze EXCEPT !.grid =
        [y \in 0..(maze.height - 1) |->
            [x \in 0..(maze.width - 1) |->
                IF x = 0 \/ x = maze.width - 1 \/ y = 0 \/ y = maze.height - 1
                THEN WALL ELSE EMPTY]]]

\* The internal_walls list of Maze._add_default_walls.
internal_walls ==
    {Position(2, 1), Position(2, 2), Position(2, 3), Position(4, 3),
     Position(4, 4), Position(4, 5), Position(1, 5), Position(2, 5),
     Position(5, 1)}

\* Maze._add_default_walls
add_default_walls(maze) ==
    [maze EXCEPT !.grid =
        [y \in DOMAIN maze.grid |->
            [x \in DOMAIN maze.grid[y] |->
                IF /\ Position(x, y) \in internal_walls
                   /\ 0 < x /\ x < maze.width - 1
                   /\ 0 < y /\ y < maze.height - 1
                THEN WALL ELSE maze.grid[y][x]]]]

\* Maze._set_start_and_exit
set_start_and_exit(maze) ==
    LET m1 == [maze EXCEPT !.start_position = Position(1, 1),
                           !.exit_position =
                               Position(maze.width - 2, maze.height - 2)]
        m2 == SetGrid(m1, m1.start_position.x, m1.start_position.y, START)
    IN SetGrid(m2, m2.exit_position.x, m2.exit_position.y, EXIT)

\* A variant of the key placement that does not look at the cell it overwrites.
PlaceKey_unconditional(maze, key_pos) ==
    IF is_valid_position(maze, key_pos)
    THEN [SetGrid(maze, key_pos.x, key_pos.y, KEY)
             EXCEPT !.key_positions = @ \cup {key_pos}]
    ELSE maze

\* One key placement of Maze._add_keys: placed only on an Empty cell.
PlaceKey(maze, key_pos) ==
    IF is_valid_position(maze, key_pos) /\ get_cell(maze, key_pos) = EMPTY
    THEN [SetGrid(maze, key_pos.x, key_pos.y, KEY)
             EXCEPT !.key_positions = @ \cup {key_pos}]
    ELSE maze

\* A variant of Maze._add_keys that puts the second key one cell further
\* right and down, whatever cell is there.
add_keys_on_exit(maze) ==
    LET m0 == [maze EXCEPT !.key_positions = {}]
        m1 == PlaceKey(m0, Position(3, 2))
    IN [SetGrid(m1, maze.width - 2, maze.height - 2, KEY)
           EXCEPT !.key_positions =
                      @ \cup {Position(maze.width - 2, maze.height - 2)}]

\* Maze._add_keys
add_keys(maze) ==
    LET m0 == [maze EXCEPT !.key_positions = {}]
        m1 == PlaceKey(m0, Position(3, 2))
    IN PlaceKey(m1, Position(maze.width - 3, maze.height - 3))

\* Maze.create_default
create_default(width, height) ==
    add_keys(set_start_and_exit(add_default_walls(
        initialize_empty_grid(NewMaze(width, height)))))

\* ------------------------------------------- maze.py: visibility, rendering
\* The positions the loops of Maze.get_visible_cells test, in their order:
\* dy from -range to range and, for each dy, dx from -range to range.
WindowPositions(position, visibility_range) ==
    LET side == 2 * visibility_range + 1
    IN [k \in 1..(IF side > 0 THEN side * side ELSE 0) |->
           Position(position.x + ((k - 1) % side) - visibility_range,
                    position.y + ((k - 1) \div side) - visibility_range)]

\* A variant of Maze.get_visible_cells that does not clip the window to the
\* grid: a position outside the grid is reported as a wall.
get_visible_cells_unclipped(maze, position, visibility_range) ==
    LET side == 2 * visibility_range + 1
    IN [k \in 1..(IF side > 0 THEN side * side ELSE 0) |->
           LET check_pos == Position(
                   position.x + ((k - 1) % side) - visibility_range,
                   position.y + ((k - 1) \div side) - visibility_range)
           IN [pos |-> check_pos,
               cell_type |-> IF is_valid_position(maze, check_pos)
                             THEN get_cell(maze, check_pos) ELSE WALL]]

\* Maze.get_visible_cells: the dict as the sequence of its items.
get_visible_cells(maze, position, visibility_range) ==
    LET valid == SelectSeq(WindowPositions(position, visibility_range),
                           LAMBDA check_pos :
                               is_valid_position(maze, check_pos))
    IN [i \in DOMAIN valid |->
           [pos |-> valid[i], cell_type |-> get_cell(maze, valid[i])]]

\* The keys of the dict returned by Maze.get_visible_cells.
VisibleKeys(visible) == {visible[i].pos : i \in DOMAIN visible}

\* "\n".join(lines), each line a sequence of characters.
RECURSIVE JoinLines(_, _)
JoinLines(lines, i) ==
    IF i > Len(lines) THEN <<>>
    ELSE lines[i] \o (IF i < Len(lines) THEN <<"\n">> ELSE <<>>)
         \o JoinLines(lines, i + 1)

\* A variant of Maze.to_string that never draws the player marker.
to_string_unmarked(maze, player_position) ==
    JoinLines(
        [row \in 1..maze.height |->
            [col \in 1..maze.width |->
                CellValue(maze.grid[row - 1][col - 1])]],
        1)

\* Maze.to_string; player_position is <<>> for None, <<p>> for a position.
to_string(maze, player_position) ==
    JoinLines(
        [row \in 1..maze.height |->
            [col \in 1..maze.width |->
                IF player_position # <<>>
                   /\ Position(col - 1, row - 1) = player_position[1]
                THEN "@"
                ELSE CellValue(maze.grid[row - 1][col - 1])]],
        1)

\* --------------------------------------------- maze.py: an explicit layout
\* A variant of Maze._char_to_cell_type that turns unknown characters into walls.
char_to_cell_type_unknown_wall(char) ==
    CASE char = "." -> EMPTY
      [] char = "S" -> START
      [] char = "E" -> EXIT
      [] char = "K" -> KEY
      [] OTHER -> WALL

\* Maze._char_to_cell_type
char_to_cell_type(char) ==
    CASE char = "#" -> WALL
      [] char = "." -> EMPTY
      [] char = "S" -> START
      [] char = "E" -> EXIT
      [] char = "K" -> KEY
      [] OTHER -> EMPTY

\* The cells of a layout in the order the loops of Maze.from_layout visit
\* them (row by row, left to right), as <<x, y, cell_type>> triples.
RECURSIVE RowCells(_, _, _)
RowCells(row, y, x) ==
    IF x >= Len(row) THEN <<>>
    ELSE <<[x |-> x, y |-> y, cell_type |-> char_to_cell_type(row[x + 1])]>>
         \o RowCells(row, y, x + 1)

RECURSIVE LayoutCells(_, _)
LayoutCells(layout, y) ==
    IF y >= Len(layout) THEN <<>>
    ELSE RowCells(layout[y + 1], y, 0) \o LayoutCells(layout, y + 1)

\* The maze after the inner loop of Maze.from_layout has run on the cells in
\* order.  Each Start / Exit cell overwrites the position found before it, so
\* the loop leaves the position of the last such cell, or the position the
\* maze had when there is none; every Key cell is added to key_positions.
ScanCells(maze, cells) ==
    LET At(i) == Position(cells[i].x, cells[i].y)
        Of(cell_type) == {i \in DOMAIN cells : cells[i].cell_type = cell_type}
        Last(cell_type, position) ==
            IF Of(cell_type) = {} THEN position
            ELSE At(CHOOSE i \in Of(cell_type) : \A j \in Of(cell_type) : j <= i)
    IN [maze EXCEPT !.start_position = Last(START, @),
                    !.exit_position = Last(EXIT, @),
                    !.key_positions = @ \cup {At(i) : i \in Of(KEY)}]

\* Maze.from_layout (the layout has valid dimensions)
maze_from_layout(layout) ==
    LET height == Len(layout)
        width == IF layout # <<>> THEN Len(layout[1]) ELSE 0
        m0 == [NewMaze(width, height) EXCEPT !.grid =
                 [y \in 0..(Len(layout) - 1) |->
                    [x \in 0..(Len(layout[y + 1]) - 1) |->
                        char_to_cell_type(layout[y + 1][x + 1])]]]
    IN ScanCells(m0, LayoutCells(layout, 0))

\* ------------------------------------------------ maze.py: construction calls
\* A call that returned value.
Return(value) == [raised |-> "", message |-> <<>>, value |-> <<value>>]

\* A call that raised an exception and returned nothing.
Raise(kind, message) == [raised |-> kind, message |-> message, value |-> <<>>]

\* The ValueError of Maze.__post_init__ (the width is tested first).
DimensionError(width, height) ==
    IF ~(MinDim <= width /\ width <= MaxDim)
    THEN Raise("ValueError",
               <<"Width must be between 5 and 10, got ", ToString(width)>>)
    ELSE Raise("ValueError",
               <<"Height must be between 5 and 10, got ", ToString(height)>>)

\* Maze(width=width, height=height): direct construction.
new_maze(width, height) ==
    IF ~ValidDims(width, height)
    THEN DimensionError(width, height)
    ELSE Return(NewMaze(width, height))

\* A call of Maze.create_default(width, height) with any arguments.
try_create_default(width, height) ==
    IF new_maze(width, height).raised # ""
    THEN new_maze(width, height)
    ELSE Return(create_default(width, height))

\* A variant of Maze.from_layout that fills the grid without validating.
try_from_layout_unchecked(layout) ==
    Return(maze_from_layout(layout))

\* A call of Maze.from_layout(layout) with any layout.
try_from_layout(layout) ==
    LET height == Len(layout)
        width == IF layout # <<>> THEN Len(layout[1]) ELSE 0
    IN IF new_maze(width, height).raised # ""
       THEN new_maze(width, height)
       ELSE Return(maze_from_layout(layout))

\* ------------------------------------------------------------ character.py
\* Character(position=...) followed by Character.__post_init__
NewCharacter(position) ==
    [position |-> position, keys_collected |-> 0, moves_made |-> 0,
     visited_positions |-> {position}]

\* Character.move: the position one step away; it does not change the actor.
\* (Game only calls it with a direction it has validated.)
character_move(character, direction) ==
    PosAdd(character.position, DIRECTIONS(Lower(direction)))

\* A variant of Character.set_position that does not count the move.
set_position_uncounted(character, new_position) ==
    [character EXCEPT !.position = new_position,
                      !.visited_positions = @ \cup {new_position}]

\* A variant of Character.set_position that does not record the visit.
set_position_untracked(character, new_position) ==
    [character EXCEPT !.position = new_position,
                      !.moves_made = @ + 1]

\* Character.set_position
set_position(character, new_position) ==
    [character EXCEPT !.position = new_position,
                      !.moves_made = @ + 1,
                      !.visited_positions = @ \cup {new_position}]

\* A variant of Character.collect_key that counts a key twice.
collect_key_twice(character) ==
    [character EXCEPT !.keys_collected = @ + 2]

\* Character.collect_key
collect_key(character) ==
    [character EXCEPT !.keys_collected = @ + 1]

\* A variant of Character.reset that keeps the visited positions.
character_reset_keeps_visited(character, start_position) ==
    [character EXCEPT !.position = start_position,
                      !.keys_collected = 0,
                      !.moves_made = 0,
                      !.visited_positions = @ \cup {start_position}]

\* Character.reset
character_reset(character, start_position) ==
    [character EXCEPT !.position = start_position,
                      !.keys_collected = 0,
                      !.moves_made = 0,
                      !.visited_positions = {start_position}]

\* ----------------------------------------------------------------- game.py
PLAYING == "playing"
WON == "won"
LOST == "lost"

GameStatus == {PLAYING, WON, LOST}

\* cls(maze=maze, character=character) followed by Game.__post_init__ and
\* the total_keys assignment of the two factory methods.
NewGame(maze, character) ==
    [maze |-> maze,
     character |-> [character EXCEPT
                       !.position = maze.start_position,
                       !.visited_positions = {maze.start_position}],
     status |-> PLAYING,
     total_keys |-> Cardinality(maze.key_positions)]

\* Game.create_new
create_new(width, height) ==
    LET m == create_default(width, height)
    IN NewGame(m, NewCharacter(m.start_position))

\* Game.from_layout
game_from_layout(layout) ==
    LET m == maze_from_layout(layout)
    IN NewGame(m, NewCharacter(m.start_position))

\* MoveResult(...); new_position is <<>> for None, <<p>> for a position.
MoveResult(success, message, new_position, key_collected, reached_exit) ==
    [success |-> success, message |-> message, new_position |-> new_position,
     key_collected |-> key_collected, reached_exit |-> reached_exit]

\* ', '.join(DIRECTIONS.keys())
JoinedDirections ==
    DirectionNames[1] \o <<", ">> \o DirectionNames[2] \o <<", ">>
    \o DirectionNames[3] \o <<", ">> \o DirectionNames[4]

\* A variant of a Character.move call that steps onto the position it
\* computed.
character_move_call_stepping(character, direction) ==
    IF Lower(direction) \notin DirectionKeys
    THEN [character |-> character,
          outcome |-> Raise("ValueError",
                            <<"Invalid direction: ">> \o direction
                            \o <<". Valid directions are: ">>
                            \o JoinedDirections)]
    ELSE [character |-> set_position(character,
                                     character_move(character, direction)),
          outcome |-> Return(character_move(character, direction))]

\* A call of Character.move(direction): the actor afterwards (the method
\* assigns to nothing) and what the call returned or raised.
character_move_call(character, direction) ==
    IF Lower(direction) \notin DirectionKeys
    THEN [character |-> character,
          outcome |-> Raise("ValueError",
                            <<"Invalid direction: ">> \o direction
                            \o <<". Valid directions are: ">>
                            \o JoinedDirections)]
    ELSE [character |-> character,
          outcome |-> Return(character_move(character, direction))]

GameOverMessage(status_value) == <<"Game is over. Status: ", status_value>>

InvalidDirectionMessage(direction) ==
    <<"Invalid direction: '">> \o direction
    \o <<"'. Valid directions: ">> \o JoinedDirections

WallMessage(direction_lower) ==
    <<"Cannot move ">> \o direction_lower \o <<": there's a wall!">>

MovedMessage(direction_lower, new_position, key_collected, reached_exit) ==
    <<"Moved ">> \o direction_lower
    \o <<" to position (", ToString(new_position.x), ", ",
         ToString(new_position.y), ").">>
    \o (IF key_collected THEN <<" You collected a key!">> ELSE <<>>)
    \o (IF reached_exit
        THEN <<" Congratulations! You reached the exit!">> ELSE <<>>)

\* Game.move, lines 101-105: the status is not Playing.
move_game_over(self) ==
    [game |-> self,
     result |-> MoveResult(FALSE, GameOverMessage(self.status),
                           <<>>, FALSE, FALSE)]

\* A variant of the invalid-direction branch that reports the actor's position.
move_invalid_reports_position(self, direction) ==
    [game |-> self,
     result |-> MoveResult(FALSE, InvalidDirectionMessage(direction),
                           <<self.character.position>>, FALSE, FALSE)]

\* Game.move, lines 109-116: the direction is not a key of DIRECTIONS.
move_invalid(self, direction) ==
    [game |-> self,
     result |-> MoveResult(FALSE, InvalidDirectionMessage(direction),
                           <<>>, FALSE, FALSE)]

\* A variant of the blocked branch that counts the attempt as a move.
move_blocked_counting(self, direction_lower) ==
    [game |-> [self EXCEPT !.character.moves_made = @ + 1],
     result |-> MoveResult(FALSE, WallMessage(direction_lower),
                           <<self.character.position>>, FALSE, FALSE)]

\* A variant of the blocked branch that reports the position it tried.
move_blocked_reports_target(self, direction_lower) ==
    [game |-> self,
     result |-> MoveResult(FALSE, WallMessage(direction_lower),
                           <<PosAdd(self.character.position,
                                    DIRECTIONS(direction_lower))>>,
                           FALSE, FALSE)]

\* A variant of the blocked branch in which walking into a wall loses the game.
move_blocked_loses(self, direction_lower) ==
    [game |-> [self EXCEPT !.status = LOST],
     result |-> MoveResult(FALSE, WallMessage(direction_lower),
                           <<self.character.position>>, FALSE, FALSE)]

\* Game.move, lines 122-127: the destination is not walkable.
move_blocked(self, direction_lower) ==
    [game |-> self,
     result |-> MoveResult(FALSE, WallMessage(direction_lower),
                           <<self.character.position>>, FALSE, FALSE)]

\* A variant of the successful step of Game.move that lets the actor win
\* only when it holds as many keys as the session's key total.
move_commit_needing_keys(self, direction_lower, new_position) ==
    LET moved == set_position(self.character, new_position)
        key_collected == has_key_at(self.maze, new_position)
        maze1 == IF key_collected
                 THEN remove_key(self.maze, new_position) ELSE self.maze
        character1 == IF key_collected THEN collect_key(moved) ELSE moved
        reached_exit == /\ is_exit(maze1, new_position)
                        /\ character1.keys_collected = self.total_keys
        status1 == IF reached_exit THEN WON ELSE self.status
    IN [game |-> [maze |-> maze1, character |-> character1,
                  status |-> status1, total_keys |-> self.total_keys],
        result |-> MoveResult(TRUE,
                              MovedMessage(direction_lower, new_position,
                                           key_collected, reached_exit),
                              <<new_position>>, key_collected, reached_exit)]

\* A variant of the successful step of Game.move that counts a key without
\* taking it out of the maze.
move_commit_keeping_key(self, direction_lower, new_position) ==
    LET moved == set_position(self.character, new_position)
        key_collected == has_key_at(self.maze, new_position)
        character1 == IF key_collected THEN collect_key(moved) ELSE moved
        reached_exit == is_exit(self.maze, new_position)
        status1 == IF reached_exit THEN WON ELSE self.status
    IN [game |-> [maze |-> self.maze, character |-> character1,
                  status |-> status1, total_keys |-> self.total_keys],
        result |-> MoveResult(TRUE,
                              MovedMessage(direction_lower, new_position,
                                           key_collected, reached_exit),
                              <<new_position>>, key_collected, reached_exit)]

\* Game.move, lines 129-157: the move is applied.
move_commit(self, direction_lower, new_position) ==
    LET moved == set_position(self.character, new_position)
        key_collected == has_key_at(self.maze, new_position)
        maze1 == IF key_collected
                 THEN remove_key(self.maze, new_position) ELSE self.maze
        character1 == IF key_collected THEN collect_key(moved) ELSE moved
        reached_exit == is_exit(maze1, new_position)
        status1 == IF reached_exit THEN WON ELSE self.status
    IN [game |-> [maze |-> maze1, character |-> character1,
                  status |-> status1, total_keys |-> self.total_keys],
        result |-> MoveResult(TRUE,
                              MovedMessage(direction_lower, new_position,
                                           key_collected, reached_exit),
                              <<new_position>>, key_collected, reached_exit)]

\* A variant of Game.move that only refuses to move when the game is lost.
move_unless_lost(self, direction) ==
    IF self.status = LOST
    THEN move_game_over(self)
    ELSE IF Lower(direction) \notin DirectionKeys
    THEN move_invalid(self, direction)
    ELSE IF ~is_walkable(self.maze, character_move(self.character, direction))
    THEN move_blocked(self, Lower(direction))
    ELSE move_commit(self, Lower(direction),
                     character_move(self.character, direction))

\* A variant of Game.move that validates the direction before the status.
move_validates_first(self, direction) ==
    IF Lower(direction) \notin DirectionKeys
    THEN move_invalid(self, direction)
    ELSE IF self.status # PLAYING
    THEN move_game_over(self)
    ELSE IF ~is_walkable(self.maze, character_move(self.character, direction))
    THEN move_blocked(self, Lower(direction))
    ELSE move_commit(self, Lower(direction),
                     character_move(self.character, direction))

\* Game.move: the session afterwards and the MoveResult returned.
move(self, direction) ==
    IF self.status # PLAYING
    THEN move_game_over(self)
    ELSE IF Lower(direction) \notin DirectionKeys
    THEN move_invalid(self, direction)
    ELSE IF ~is_walkable(self.maze, character_move(self.character, direction))
    THEN move_blocked(self, Lower(direction))
    ELSE move_commit(self, Lower(direction),
                     character_move(self.character, direction))

\* A variant of Game.get_available_moves that leaves out the directions that
\* lead onto a key.
get_available_moves_skipping_keys(self) ==
    SelectSeq(DirectionNames,
              LAMBDA direction :
                  /\ is_walkable(self.maze,
                                 character_move(self.character, direction))
                  /\ ~has_key_at(self.maze,
                                 character_move(self.character, direction)))

\* Game.get_available_moves
get_available_moves(self) ==
    SelectSeq(DirectionNames,
              LAMBDA direction :
                  is_walkable(self.maze,
                              character_move(self.character, direction)))

\* The positions of the visible cells of one kind, as {"x", "y"} dicts.
PositionsOf(visible, kinds) ==
    LET chosen == SelectSeq(visible, LAMBDA item : item.cell_type \in kinds)
    IN [i \in DOMAIN chosen |-> chosen[i].pos]

\* Game.look_around
look_around(self, visibility_range) ==
    LET visible_cells == get_visible_cells(self.maze, self.character.position,
                                           visibility_range)
    IN [current_position |-> self.character.position,
        visible_cells |->
            [walls |-> PositionsOf(visible_cells, {WALL}),
             empty |-> PositionsOf(visible_cells, {EMPTY}),
             keys |-> PositionsOf(visible_cells, {KEY}),
             exit |-> PositionsOf(visible_cells, {EXIT}),
             start |-> PositionsOf(visible_cells, {START})],
        available_moves |-> get_available_moves(self)]

\* Game.get_state
get_state(self) ==
    [status |-> self.status,
     player |-> [position |-> self.character.position,
                 keys_collected |-> self.character.keys_collected,
                 moves_made |-> self.character.moves_made],
     maze |-> [width |-> self.maze.width,
               height |-> self.maze.height,
               total_keys |-> self.total_keys,
               keys_remaining |-> Cardinality(self.maze.key_positions)],
     exit_position |-> self.maze.exit_position]

\* The character U+00B7 (middle dot) that marks a visited, unseen cell.
DimmedMarker == "U+00B7"

\* The visibility range of the fog-of-war display.
FogRange == 2

\* A variant of Game.get_maze_display that tests the visited set before the
\* visibility window.
get_maze_display_visited_first(self, fog_of_war) ==
    IF ~fog_of_war
    THEN to_string(self.maze, <<self.character.position>>)
    ELSE
    LET visible == VisibleKeys(get_visible_cells(self.maze,
                                                 self.character.position,
                                                 FogRange))
    IN JoinLines(
        [row \in 1..self.maze.height |->
            [col \in 1..self.maze.width |->
                LET pos == Position(col - 1, row - 1) IN
                IF pos = self.character.position THEN "@"
                ELSE IF pos \in self.character.visited_positions
                THEN DimmedMarker
                ELSE IF pos \in visible
                THEN CellValue(self.maze.grid[row - 1][col - 1])
                ELSE "?"]],
        1)

\* Game.get_maze_display
get_maze_display(self, fog_of_war) ==
    IF ~fog_of_war
    THEN to_string(self.maze, <<self.character.position>>)
    ELSE
    LET visible == VisibleKeys(get_visible_cells(self.maze,
                                                 self.character.position,
                                                 FogRange))
    IN JoinLines(
        [row \in 1..self.maze.height |->
            [col \in 1..self.maze.width |->
                LET pos == Position(col - 1, row - 1) IN
                IF pos = self.character.position THEN "@"
                ELSE IF pos \in visible
                THEN CellValue(self.maze.grid[row - 1][col - 1])
                ELSE IF pos \in self.character.visited_positions
                THEN DimmedMarker
                ELSE "?"]],
        1)

\* A call of Game.look_around: the session afterwards (the method assigns to
\* nothing) and the dict returned.
look_around_call(self, visibility_range) ==
    [game |-> self, result |-> look_around(self, visibility_range)]

\* A call of Game.get_state: the session afterwards (the method assigns to
\* nothing) and the dict returned.
get_state_call(self) ==
    [game |-> self, result |-> get_state(self)]

\* A variant of a Game.get_maze_display call that, under fog of war, records
\* the cells it shows as visited.
get_maze_display_call_remembering(self, fog_of_war) ==
    [game |-> IF fog_of_war
              THEN [self EXCEPT !.character.visited_positions =
                       @ \cup VisibleKeys(get_visible_cells(
                                   self.maze, self.character.position,
                                   FogRange))]
              ELSE self,
     result |-> get_maze_display(self, fog_of_war)]

\* A call of Game.get_maze_display: the session afterwards (the method
\* assigns to nothing) and the text returned.
get_maze_display_call(self, fog_of_war) ==
    [game |-> self, result |-> get_maze_display(self, fog_of_war)]

\* A variant of Game.reset that leaves the status as it is.
reset_keeping_status(self) ==
    LET maze1 == create_default(self.maze.width, self.maze.height)
    IN [maze |-> maze1,
        character |-> character_reset(self.character, maze1.start_position),
        status |-> self.status,
        total_keys |-> Cardinality(maze1.key_positions)]

\* Game.reset
reset(self) ==
    LET maze1 == create_default(self.maze.width, self.maze.height)
    IN [maze |-> maze1,
        character |-> character_reset(self.character, maze1.start_position),
        status |-> PLAYING,
        total_keys |-> Cardinality(maze1.key_positions)]

\* ---------------------------------------------------------------- server.py
\* The module global _game is <<>> for None and <<game>> for a session. Each
\* definition below gives the global after the call next to what it returns.

\* A variant of get_game that builds a new session on every call.
get_game_always_new(global) == <<create_new(7, 7)>>

\* get_game: the global afterwards; the session returned is its element.
get_game(global) ==
    IF global = <<>> THEN <<create_new(7, 7)>> ELSE global

\* reset_game_instance: the global afterwards.
reset_game_instance(global) == <<create_new(7, 7)>>

\* A variant of the tool move that reports the status the session had
\* before the move was applied.
tool_move_status_before(global, direction) ==
    LET r == move(get_game(global)[1], direction)
    IN [global |-> <<r.game>>,
        response |-> [success |-> r.result.success,
                      message |-> r.result.message,
                      key_collected |-> r.result.key_collected,
                      reached_exit |-> r.result.reached_exit,
                      game_status |-> get_game(global)[1].status,
                      new_position |-> r.result.new_position]]

\* The tool move; the key "new_position" is present when the result has a
\* position.
tool_move(global, direction) ==
    LET r == move(get_game(global)[1], direction)
    IN [global |-> <<r.game>>,
        response |-> [success |-> r.result.success,
                      message |-> r.result.message,
                      key_collected |-> r.result.key_collected,
                      reached_exit |-> r.result.reached_exit,
                      game_status |-> r.game.status,
                      new_position |-> r.result.new_position]]

\* A variant of the clamping that has no lower limit.
ClampRange_upper_only(visibility_range) ==
    IF visibility_range < 5 THEN visibility_range ELSE 5

\* max(1, min(5, visibility_range))
ClampRange(visibility_range) ==
    LET least == IF visibility_range < 5 THEN visibility_range ELSE 5
    IN IF least > 1 THEN least ELSE 1

\* The tool look_around
tool_look_around(global, visibility_range) ==
    [global |-> get_game(global),
     response |-> look_around(get_game(global)[1],
                              ClampRange(visibility_range))]

\* The tool get_game_state
tool_get_game_state(global) ==
    [global |-> get_game(global),
     response |-> get_state(get_game(global)[1])]

\* The tool get_maze_display
tool_get_maze_display(global, fog_of_war) ==
    [global |-> get_game(global),
     response |-> get_maze_display(get_game(global)[1], fog_of_war)]

\* The tool reset_game
tool_reset_game(global) ==
    [global |-> reset_game_instance(global),
     response |-> "Game has been reset. A new maze is ready! Use 'get_maze_display' to see it."]

\* ------------------------------------------------------------ the inputs
\* A walled 5x5 layout with one key next to the start.
LayoutKey ==
    << <<"#", "#", "#", "#", "#">>,
       <<"#", "S", "K", ".", "#">>,
       <<"#", ".", ".", ".", "#">>,
       <<"#", ".", ".", "E", "#">>,
       <<"#", "#", "#", "#", "#">> >>

\* A walled 5x5 layout without keys.
LayoutNoKey ==
    << <<"#", "#", "#", "#", "#">>,
       <<"#", "S", ".", ".", "#">>,
       <<"#", ".", "#", ".", "#">>,
       <<"#", ".", ".", "E", "#">>,
       <<"#", "#", "#", "#", "#">> >>

\* A 5x5 layout without border walls, with four keys around the start.
LayoutOpen ==
    << <<".", "K", ".", "#", ".">>,
       <<"K", "S", "K", "#", ".">>,
       <<".", "K", ".", "E", ".">>,
       <<"#", "#", ".", "#", ".">>,
       <<".", ".", ".", ".", ".">> >>

\* A 5x5 layout with neither 'S' nor 'E' and an unrecognized character.
LayoutBare ==
    << <<"K", ".", "#", ".", ".">>,
       <<".", "x", "#", ".", ".">>,
       <<"#", "#", "#", ".", ".">>,
       <<".", ".", ".", ".", ".">>,
       <<".", ".", ".", ".", ".">> >>

\* A 6x5 layout with two 'S' and two 'E' characters.
LayoutTwice ==
    << <<"#", "#", "#", "#", "#", "#">>,
       <<"#", "S", ".", "K", "S", "#">>,
       <<"#", "E", "#", ".", ".", "#">>,
       <<"#", ".", "K", ".", "E", "#">>,
       <<"#", "#", "#", "#", "#", "#">> >>

Layouts == {LayoutKey, LayoutNoKey, LayoutOpen, LayoutBare, LayoutTwice}

\* The direction strings passed to Game.move.
DirectionInputs ==
    DirectionKeys \cup
    { <<"U", "P">>, <<"D", "o", "w", "n">>, <<"L", "e", "F", "t">>,
      <<"R", "I", "G", "H", "T">>, <<"n", "o", "r", "t", "h">>, <<>> }

\* Largest visibility_range passed to Game.look_around.
MaxRange == 2

\* ------------------------------------------------------------- the session
VARIABLES
    maze,         \* Game.maze
    character,    \* Game.character
    status,       \* Game.status
    total_keys,   \* Game.total_keys
    call,         \* the last operation called and its argument
    result,       \* what the last Game.move returned (<<>> before any)
    before,       \* the Game object when the last operation was called
    created       \* how the session was created (the layout given, if
                  \* any), and the session then

vars == <<maze, character, status, total_keys, call, result, before, created>>

\* The Game object.
Self ==
    [maze |-> maze, character |-> character, status |-> status,
     total_keys |-> total_keys]

\* Game.create_new(width, height) or Game.from_layout(layout)
Init ==
    /\ \/ \E width \in MinDim..MaxDim, height \in MinDim..MaxDim :
            created = [by |-> "create_new", layout |-> <<>>,
                       game |-> create_new(width, height)]
       \/ \E layout \in Layouts :
            created = [by |-> "from_layout", layout |-> layout,
                       game |-> game_from_layout(layout)]
    /\ maze = created.game.maze
    /\ character = created.game.character
    /\ status = created.game.status
    /\ total_keys = created.game.total_keys
    /\ call = [op |-> created.by, direction |-> <<>>]
    /\ result = <<>>
    /\ before = created.game

\* A call of Game.move(direction)
Move ==
    /\ character.moves_made < MaxMoves
    /\ \E direction \in DirectionInputs :
          \E r \in {move(Self, direction)} :
          /\ maze' = r.game.maze
          /\ character' = r.game.character
          /\ status' = r.game.status
          /\ total_keys' = r.game.total_keys
          /\ call' = [op |-> "move", direction |-> direction]
          /\ result' = <<r.result>>
    /\ before' = Self
    /\ UNCHANGED created

\* A call of Game.reset()
Reset ==
    /\ \E g \in {reset(Self)} :
          /\ maze' = g.maze
          /\ character' = g.character
          /\ status' = g.status
          /\ total_keys' = g.total_keys
    /\ call' = [op |-> "reset", direction |-> <<>>]
    /\ result' = <<>>
    /\ before' = Self
    /\ UNCHANGED created

\* A call of Game.look_around(visibility_range)
LookAround ==
    /\ \E visibility_range \in 0..MaxRange :
          \E r \in {look_around_call(Self, visibility_range)} :
          /\ maze' = r.game.maze
          /\ character' = r.game.character
          /\ status' = r.game.status
          /\ total_keys' = r.game.total_keys
          /\ call' = [op |-> "look_around",
                      visibility_range |-> visibility_range]
          /\ result' = <<r.result>>
    /\ before' = Self
    /\ UNCHANGED created

\* A call of Game.get_state()
GetState ==
    /\ \E r \in {get_state_call(Self)} :
          /\ maze' = r.game.maze
          /\ character' = r.game.character
          /\ status' = r.game.status
          /\ total_keys' = r.game.total_keys
          /\ result' = <<r.result>>
    /\ call' = [op |-> "get_state"]
    /\ before' = Self
    /\ UNCHANGED created

\* A call of Game.get_maze_display(fog_of_war)
GetMazeDisplay ==
    /\ \E fog_of_war \in BOOLEAN :
          \E r \in {get_maze_display_call(Self, fog_of_war)} :
          /\ maze' = r.game.maze
          /\ character' = r.game.character
          /\ status' = r.game.status
          /\ total_keys' = r.game.total_keys
          /\ call' = [op |-> "get_maze_display", fog_of_war |-> fog_of_war]
          /\ result' = <<r.result>>
    /\ before' = Self
    /\ UNCHANGED created

Next == Move \/ Reset \/ LookAround \/ GetState \/ GetMazeDisplay

\* ---------------------------------------------------- the Maze on its own
\* How far outside the grid the probed positions reach.
Margin == 1

\* The positions Maze methods are called with: the grid and a margin around it.
Probes(m) ==
    {Position(x, y) : x \in (0 - Margin)..(m.width - 1 + Margin),
                      y \in (0 - Margin)..(m.height - 1 + Margin)}

\* A maze built by Maze.create_default or Maze.from_layout; created keeps it,
\* and the actor, status and total-key variables are not used.
MazeInit ==
    /\ \/ \E width \in MinDim..MaxDim, height \in MinDim..MaxDim :
            /\ maze = create_default(width, height)
            /\ call = [op |-> "create_default"]
       \/ \E layout \in Layouts :
            /\ maze = maze_from_layout(layout)
            /\ call = [op |-> "from_layout"]
    /\ result = <<>>
    /\ before = [maze |-> maze]
    /\ character = <<>>
    /\ status = ""
    /\ total_keys = 0
    /\ created = [maze |-> maze]

\* A call of Maze.remove_key(position)
RemoveKey ==
    /\ \E position \in Probes(maze) :
          /\ maze' = remove_key(maze, position)
          /\ call' = [op |-> "remove_key", position |-> position]
          /\ result' = <<remove_key_ret(maze, position)>>
    /\ before' = [maze |-> maze]
    /\ UNCHANGED <<character, status, total_keys, created>>

\* A call of Maze.is_valid_position(position)
IsValidPosition ==
    /\ \E position \in Probes(maze) :
          /\ call' = [op |-> "is_valid_position", position |-> position]
          /\ result' = <<is_valid_position(maze, position)>>
    /\ before' = [maze |-> maze]
    /\ UNCHANGED <<maze, character, status, total_keys, created>>

\* A call of Maze.is_walkable(position)
IsWalkable ==
    /\ \E position \in Probes(maze) :
          /\ call' = [op |-> "is_walkable", position |-> position]
          /\ result' = <<is_walkable(maze, position)>>
    /\ before' = [maze |-> maze]
    /\ UNCHANGED <<maze, character, status, total_keys, created>>

MazeNext == RemoveKey \/ IsValidPosition \/ IsWalkable

MazeSpec == MazeInit /\ [][MazeNext]_vars

\* ------------------------------------------- the window of visible cells
\* The mazes Maze.get_visible_cells is called on: default layouts, explicit
\* layouts, and each of these after one of its keys was removed.
WindowMazes ==
    LET built == {create_default(width, height) :
                      width \in MinDim..MaxDim, height \in MinDim..MaxDim}
                 \cup {maze_from_layout(layout) : layout \in Layouts}
    IN built \cup UNION {{remove_key(m, p) : p \in m.key_positions} : m \in built}

\* A maze of WindowMazes and the arguments of the call to come; the actor,
\* status and total-key variables are not used.
WindowInit ==
    /\ maze \in WindowMazes
    /\ \E position \in Probes(maze), visibility_range \in (0 - 1)..MaxRange :
          call = [op |-> "none", position |-> position,
                  visibility_range |-> visibility_range]
    /\ result = <<>>
    /\ before = [maze |-> maze]
    /\ character = <<>>
    /\ status = ""
    /\ total_keys = 0
    /\ created = [maze |-> maze]

\* A call of Maze.get_visible_cells(position, visibility_range); the method
\* assigns to nothing, so the maze stays as it is.
GetVisibleCells ==
    /\ call.op = "none"
    /\ call' = [call EXCEPT !.op = "get_visible_cells"]
    /\ result' = <<get_visible_cells(maze, call.position,
                                     call.visibility_range)>>
    /\ before' = [maze |-> maze]
    /\ UNCHANGED <<maze, character, status, total_keys, created>>

WindowNext == GetVisibleCells

WindowSpec == WindowInit /\ [][WindowNext]_vars

\* ------------------------------------------------ the actor on its own
\* Largest coordinate of the actors Character.move is called on.
MaxCoord == 2

\* The direction strings passed to Character.move.
CharacterDirections ==
    DirectionInputs \cup {<<"d", "i", "a", "g", "o", "n", "a", "l">>}

\* An actor as Character(position) builds it, possibly after some
\* set_position and collect_key calls, and the argument of the call to come;
\* the maze, status and total-key variables are not used.
CharacterInit ==
    /\ \E x \in 0..MaxCoord, y \in 0..MaxCoord,
          earlier \in SUBSET {Position(0, 0), Position(1, 0)},
          keys_collected \in 0..1 :
          character = [position |-> Position(x, y),
                       keys_collected |-> keys_collected,
                       moves_made |-> Cardinality(earlier),
                       visited_positions |-> earlier \cup {Position(x, y)}]
    /\ \E direction \in CharacterDirections :
          call = [op |-> "none", direction |-> direction]
    /\ result = <<>>
    /\ before = [character |-> character]
    /\ maze = <<>>
    /\ status = ""
    /\ total_keys = 0
    /\ created = <<>>

\* A call of Character.move(direction)
CharacterMove ==
    /\ call.op = "none"
    /\ LET r == character_move_call(character, call.direction) IN
          /\ character' = r.character
          /\ result' = <<r.outcome>>
    /\ call' = [call EXCEPT !.op = "Character.move"]
    /\ before' = [character |-> character]
    /\ UNCHANGED <<maze, status, total_keys, created>>

CharacterNext == CharacterMove

CharacterSpec == CharacterInit /\ [][CharacterNext]_vars

\* ------------------------------------------------------- the tool server
\* Largest visibility_range passed to the tool look_around (the smallest
\* is -1).
MaxToolRange == 7

\* Largest number of successful moves of one session of the server (the
\* exit of the default 7x7 layout is 12 moves from the start).
MaxToolMoves == 13

\* The module global _game: the session variables hold its session, and the
\* status is "" while it is None.
Global == IF status = "" THEN <<>> ELSE <<Self>>

\* The server process has started: _game is None. In this specification
\* created counts the successful move calls since the session was created.
ServerInit ==
    /\ maze = <<>>
    /\ character = <<>>
    /\ status = ""
    /\ total_keys = 0
    /\ call = [op |-> "none"]
    /\ result = <<>>
    /\ before = <<>>
    /\ created = [moved |-> 0]

\* The global _game becomes the session global[1].
SetGlobal(global) ==
    /\ maze' = global[1].maze
    /\ character' = global[1].character
    /\ status' = global[1].status
    /\ total_keys' = global[1].total_keys

\* A call of the tool move(direction)
ToolMove ==
    /\ IF Global = <<>> THEN TRUE ELSE character.moves_made < MaxToolMoves
    /\ \E direction \in DirectionInputs :
          \E r \in {tool_move(Global, direction)} :
          /\ SetGlobal(r.global)
          /\ call' = [op |-> "move", direction |-> direction]
          /\ result' = <<r.response>>
          /\ created' = [moved |-> IF r.response.success
                                   THEN created.moved + 1 ELSE created.moved]
    /\ before' = Global

\* A call of the tool look_around(visibility_range)
ToolLookAround ==
    /\ \E visibility_range \in (0 - 1)..MaxToolRange :
          \E r \in {tool_look_around(Global, visibility_range)} :
          /\ SetGlobal(r.global)
          /\ call' = [op |-> "look_around",
                      visibility_range |-> visibility_range]
          /\ result' = <<r.response>>
    /\ before' = Global
    /\ UNCHANGED created

\* A call of the tool get_game_state()
ToolGetGameState ==
    /\ \E r \in {tool_get_game_state(Global)} :
          /\ SetGlobal(r.global)
          /\ result' = <<r.response>>
    /\ call' = [op |-> "get_game_state"]
    /\ before' = Global
    /\ UNCHANGED created

\* A call of the tool get_maze_display(fog_of_war)
ToolGetMazeDisplay ==
    /\ \E fog_of_war \in BOOLEAN :
          \E r \in {tool_get_maze_display(Global, fog_of_war)} :
          /\ SetGlobal(r.global)
          /\ call' = [op |-> "get_maze_display", fog_of_war |-> fog_of_war]
          /\ result' = <<r.response>>
    /\ before' = Global
    /\ UNCHANGED created

\* A call of the tool reset_game()
ToolResetGame ==
    /\ \E r \in {tool_reset_game(Global)} :
          /\ SetGlobal(r.global)
          /\ result' = <<r.response>>
    /\ call' = [op |-> "reset_game"]
    /\ before' = Global
    /\ created' = [moved |-> 0]

ServerNext ==
    \/ ToolMove
    \/ ToolLookAround
    \/ ToolGetGameState
    \/ ToolGetMazeDisplay
    \/ ToolResetGame

ServerSpec == ServerInit /\ [][ServerNext]_vars

\* ------------------------------------------------- constructing a Maze
\* Largest width, height, row count and row length passed to a constructor.
MaxSize == 11

\* A layout of height rows of width '.' characters.
BlankLayout(width, height) ==
    [y \in 1..height |-> [x \in 1..width |-> "."]]

\* The layouts passed to Maze.from_layout: of every size, valid or not.
LayoutInputs ==
    Layouts \cup
    {BlankLayout(width, height) : width \in 0..MaxSize, height \in 0..MaxSize}

\* Nothing has been constructed yet; only call and result are used.
ConstructInit ==
    /\ call = [op |-> "none"]
    /\ result = <<>>
    /\ before = <<>>
    /\ maze = <<>>
    /\ character = <<>>
    /\ status = ""
    /\ total_keys = 0
    /\ created = <<>>

\* A call of Maze(width=width, height=height)
ConstructMaze ==
    /\ \E width \in 0..MaxSize, height \in 0..MaxSize :
          /\ call' = [op |-> "Maze", width |-> width, height |-> height]
          /\ result' = <<new_maze(width, height)>>
    /\ UNCHANGED <<before, maze, character, status, total_keys, created>>

\* A call of Maze.create_default(width, height)
CreateDefault ==
    /\ \E width \in 0..MaxSize, height \in 0..MaxSize :
          /\ call' = [op |-> "create_default",
                      width |-> width, height |-> height]
          /\ result' = <<try_create_default(width, height)>>
    /\ UNCHANGED <<before, maze, character, status, total_keys, created>>

\* A call of Maze.from_layout(layout)
FromLayout ==
    /\ \E layout \in LayoutInputs :
          /\ call' = [op |-> "from_layout", layout |-> layout]
          /\ result' = <<try_from_layout(layout)>>
    /\ UNCHANGED <<before, maze, character, status, total_keys, created>>

ConstructNext == ConstructMaze \/ CreateDefault \/ FromLayout

ConstructSpec == ConstructInit /\ [][ConstructNext]_vars

Spec == Init /\ [][Next]_vars

TypeOK ==
    /\ status \in GameStatus
    /\ character.moves_made \in 0..MaxMoves
    /\ total_keys \in Nat

\* ------------------------------------------------------------- properties
\* The last operation was Game.move.
Moved == call.op = "move"

\* The position the last Game.move aimed at (its direction was valid).
Destination ==
    PosAdd(before.character.position, DIRECTIONS(Lower(call.direction)))

\* The last Game.move was given one of up/down/left/right in any letter case.
ValidDirection == Lower(call.direction) \in DirectionKeys

\* The positions reachable from those in seen by steps onto walkable cells.
RECURSIVE Reach(_, _)
Reach(m, seen) ==
    LET more == seen \cup
                {q \in {PosAdd(p, DIRECTIONS(d)) : p \in seen, d \in DirectionKeys} :
                    is_walkable(m, q)}
    IN IF more = seen THEN seen ELSE Reach(m, more)

\* C1: a Game.move that fails (game over, unknown direction, wall or out of
\* bounds) leaves the whole session as it was: actor, counters, visited set,
\* grid, key set, total-key count and status.
C1_FailedMoveChangesNothing ==
    (Moved /\ ~result[1].success) => Self = before

\* C1 witness: a move from a position reached by earlier moves was blocked.
C1_Witness ==
    /\ Moved /\ ~result[1].success
    /\ result[1].new_position # <<>>
    /\ before.character.moves_made > 0
    /\ before.character.keys_collected > 0

\* C2: once the status is Won, every move call fails with the game-over
\* message and leaves the actor's position, key counter, remaining keys and
\* move counter unchanged, and the status stays Won unless reset is called.
C2_WonIsTerminal ==
    before.status = WON =>
        /\ Moved =>
              /\ ~result[1].success
              /\ result[1].message = <<"Game is over. Status: ", "won">>
              /\ character.position = before.character.position
              /\ character.keys_collected = before.character.keys_collected
              /\ character.moves_made = before.character.moves_made
              /\ maze.key_positions = before.maze.key_positions
              /\ status = WON
        /\ status # WON => call.op = "reset"

\* C2 witness: a move with a valid direction into a walkable cell was
\* refused because the game was already won.
C2_Witness ==
    /\ Moved /\ before.status = WON /\ status = WON
    /\ ValidDirection
    /\ is_walkable(maze, Destination)

\* C3: a successful move sets the status to Won exactly when its destination
\* is the exit, and reports reached_exit exactly then; the keys collected
\* play no role; nothing but such a move makes the status Won.
C3_WonIffExitReached ==
    /\ (Moved /\ result[1].success) =>
          /\ status = WON <=> Destination = before.maze.exit_position
          /\ result[1].reached_exit <=> Destination = before.maze.exit_position
    /\ (status = WON /\ before.status # WON) =>
          /\ Moved /\ result[1].success
          /\ character.position = maze.exit_position
    /\ call.op \in {"create_new", "from_layout"} => status # WON

\* C3 witness: the exit was reached while keys were still in the maze.
C3_Witness ==
    /\ Moved /\ result[1].success /\ result[1].reached_exit
    /\ status = WON
    /\ maze.key_positions # {}
    /\ character.keys_collected = 0

\* C4: while Playing, a move in a valid direction (any letter case) onto a
\* walkable destination succeeds: the actor is at the destination, the move
\* counter grew by 1, the destination joined the visited set and the result
\* reports success with new_position equal to the destination.
C4_WalkableMoveSucceeds ==
    (/\ Moved /\ before.status = PLAYING /\ ValidDirection
     /\ is_walkable(before.maze, Destination)) =>
        /\ character.position = Destination
        /\ character.moves_made = before.character.moves_made + 1
        /\ character.visited_positions =
               before.character.visited_positions \cup {Destination}
        /\ result[1].success
        /\ result[1].new_position = <<Destination>>

\* C4 witness: a move spelled in upper case succeeded onto a new cell.
C4_Witness ==
    /\ Moved /\ result[1].success
    /\ call.direction = <<"R", "I", "G", "H", "T">>
    /\ character.position \notin before.character.visited_positions

\* C5: a successful move onto a key removes it from the key set, sets its cell
\* to Empty, adds 1 to the key counter and reports key_collected; a successful
\* move elsewhere leaves key set and key counter alone and reports no key.
C5_KeyCollection ==
    (Moved /\ result[1].success) =>
        LET dest == result[1].new_position[1] IN
        IF dest \in before.maze.key_positions
        THEN /\ maze.key_positions = before.maze.key_positions \ {dest}
             /\ maze.grid[dest.y][dest.x] = EMPTY
             /\ character.keys_collected = before.character.keys_collected + 1
             /\ result[1].key_collected
        ELSE /\ maze.key_positions = before.maze.key_positions
             /\ character.keys_collected = before.character.keys_collected
             /\ ~result[1].key_collected

\* C5 witness: a key of the default layout was collected.
C5_Witness ==
    /\ Moved /\ result[1].success /\ result[1].key_collected
    /\ created.by = "create_new"
    /\ character.keys_collected = 1

C7_ResetRestoresOriginalTotal ==
    call.op = "reset" =>
        Cardinality(maze.key_positions) = created.game.total_keys

\* C8: in a fresh default-layout session of any width and height in 5..10
\* the exit is reachable from the start through walkable cells.
C8_DefaultLayoutWinnable ==
    call.op = "create_new" =>
        maze.exit_position \in Reach(maze, {maze.start_position})

\* C9: move checks the status first: when the status is not Playing the call
\* fails with the game-over message naming the status whatever the direction
\* string, never with the invalid-direction error, and reports no position.
C9_StatusCheckedFirst ==
    (Moved /\ before.status # PLAYING) =>
        result[1] = [success |-> FALSE,
                     message |-> <<"Game is over. Status: ", before.status>>,
                     new_position |-> <<>>,
                     key_collected |-> FALSE,
                     reached_exit |-> FALSE]

\* C9 witness: a move with an unrecognized direction was made after the win.
C9_Witness ==
    /\ Moved /\ before.status # PLAYING
    /\ call.direction = <<"n", "o", "r", "t", "h">>

\* C10: while Playing, a move in a valid direction whose destination is a
\* Wall cell or outside the grid fails with the wall message and reports the
\* actor's current, unchanged position.
C10_BlockedMoveReportsCurrentPosition ==
    (/\ Moved /\ before.status = PLAYING /\ ValidDirection
     /\ \/ ~is_valid_position(before.maze, Destination)
        \/ before.maze.grid[Destination.y][Destination.x] = WALL) =>
        /\ ~result[1].success
        /\ result[1].message =
               <<"Cannot move ">> \o Lower(call.direction)
               \o <<": there's a wall!">>
        /\ result[1].new_position = <<before.character.position>>
        /\ character.position = before.character.position

\* C10 witness: a move that would have left the grid was blocked.
C10_Witness ==
    /\ Moved /\ before.status = PLAYING /\ ValidDirection
    /\ ~is_valid_position(before.maze, Destination)
    /\ ~result[1].success

\* The session was just created (no operation has been called yet).
Created == call.op \in {"create_new", "from_layout"}

C12_GridInvariant ==
    /\ is_valid_position(maze, maze.start_position)
    /\ is_valid_position(maze, maze.exit_position)
    /\ \A k \in maze.key_positions : is_valid_position(maze, k)
    /\ maze.grid[maze.start_position.y][maze.start_position.x] = START
    /\ maze.grid[maze.exit_position.y][maze.exit_position.x] = EXIT
    /\ \A k \in maze.key_positions : maze.grid[k.y][k.x] = KEY

\* C13: no move changes the total-key count, and in every reachable state the
\* key counter plus the number of remaining keys is the total-key count, with
\* the key counter between 0 and the total.
C13_KeyAccounting ==
    /\ Moved => total_keys = before.total_keys
    /\ character.keys_collected + Cardinality(maze.key_positions) = total_keys
    /\ 0 <= character.keys_collected
    /\ character.keys_collected <= total_keys

\* C13 witness: some keys are collected and some remain.
C13_Witness ==
    /\ Moved /\ result[1].success
    /\ character.keys_collected = 2
    /\ Cardinality(maze.key_positions) = 2

\* C14: the actor starts at the start position with visited set {start}; the
\* visited set always contains the current position; only reset removes a
\* position from it; its size is at most the move counter plus 1.
C14_VisitedSet ==
    /\ Created =>
          /\ character.position = maze.start_position
          /\ character.visited_positions = {maze.start_position}
    /\ character.position \in character.visited_positions
    /\ call.op # "reset" =>
          before.character.visited_positions \subseteq
              character.visited_positions
    /\ Cardinality(character.visited_positions) <= character.moves_made + 1

\* C14 witness: the actor has walked back onto a position visited before.
C14_Witness ==
    /\ Moved /\ result[1].success
    /\ character.position \in before.character.visited_positions
    /\ Cardinality(character.visited_positions) > 2
    /\ Cardinality(character.visited_positions) < character.moves_made + 1

\* C15: the status Lost is never reached: after any sequence of move,
\* look_around, get_state, get_maze_display and reset calls the status is
\* Playing or Won, and a freshly created session is Playing.
C15_LostUnreachable ==
    /\ status \in {PLAYING, WON}
    /\ Created => status = PLAYING

\* C15 witness: the display was queried in a won game after blocked moves.
C15_Witness ==
    /\ call.op = "get_maze_display"
    /\ status = WON
    /\ character.moves_made > 2
    /\ Cardinality(character.visited_positions) > 2

\* The last call was one of the three ways of constructing a Maze.
Constructed == call.op \in {"Maze", "create_default", "from_layout"}

\* The width the last constructor call asked for (for a layout: the length
\* of its first row, 0 when there is no row).
AskedWidth ==
    IF call.op = "from_layout"
    THEN (IF call.layout = <<>> THEN 0 ELSE Len(call.layout[1]))
    ELSE call.width

\* The height the last constructor call asked for (for a layout: its rows).
AskedHeight ==
    IF call.op = "from_layout" THEN Len(call.layout) ELSE call.height

\* C16: constructing a grid with a width or height outside 5..10 fails with
\* a validation error and produces no grid, on every path: direct
\* construction, the default layout and an explicit layout.
C16_BadDimensionsRejected ==
    (/\ Constructed
     /\ \/ AskedWidth < 5 \/ AskedWidth > 10
        \/ AskedHeight < 5 \/ AskedHeight > 10) =>
        /\ result[1].raised = "ValueError"
        /\ result[1].value = <<>>

\* C16 witness: a layout of four rows of valid length was rejected.
C16_Witness ==
    /\ call.op = "from_layout"
    /\ AskedHeight = 4 /\ AskedWidth = 7
    /\ result[1].raised = "ValueError"

\* C17: remove_key(c) on a key position removes c from the key set, sets its
\* cell to Empty and returns true, changing nothing else; otherwise it
\* returns false and changes nothing. After any remove_key(c), c is not a
\* key, so a second remove_key(c) returns false and changes nothing.
C17_RemoveKey ==
    call.op = "remove_key" =>
        LET c == call.position IN
        /\ IF c \in before.maze.key_positions
           THEN /\ result[1] = TRUE
                /\ maze.key_positions = before.maze.key_positions \ {c}
                /\ maze.grid[c.y][c.x] = EMPTY
                /\ \A y \in 0..(maze.height - 1), x \in 0..(maze.width - 1) :
                      Position(x, y) # c =>
                          maze.grid[y][x] = before.maze.grid[y][x]
                /\ maze.start_position = before.maze.start_position
                /\ maze.exit_position = before.maze.exit_position
                /\ maze.width = before.maze.width
                /\ maze.height = before.maze.height
           ELSE /\ result[1] = FALSE
                /\ maze = before.maze
        /\ c \notin maze.key_positions

\* C17 witness: remove_key was called again on a position whose key had
\* been removed, and returned false.
C17_Witness ==
    /\ call.op = "remove_key"
    /\ call.position \in created.maze.key_positions
    /\ result[1] = FALSE
    /\ maze = before.maze

\* C18: for every grid and position, is_valid_position holds exactly when
\* 0 <= x < width and 0 <= y < height, and is_walkable holds exactly when the
\* position is in bounds and its cell is not Wall.
C18_BoundsAndWalkable ==
    LET inside == /\ 0 <= call.position.x /\ call.position.x < maze.width
                  /\ 0 <= call.position.y /\ call.position.y < maze.height
    IN /\ call.op = "is_valid_position" => result[1] = inside
       /\ call.op = "is_walkable" =>
             result[1] =
                 (inside /\
                  maze.grid[call.position.y][call.position.x]
                      \in {EMPTY, START, EXIT, KEY})

\* C18 witness: a Key cell was found walkable.
C18_Witness ==
    /\ call.op = "is_walkable"
    /\ call.position \in maze.key_positions
    /\ result[1] = TRUE

\* The maze a successful create_default call returned.
Built == result[1].value[1]

\* C19: the default layout of every valid size has Wall on its whole border,
\* Start at (1,1), Exit at (width-2, height-2), and keys only at (3,2) and
\* (width-3, height-3), each present exactly when its cell was Empty before
\* the keys were placed; no Start, Exit or Wall cell is overwritten, so
\* there are at most two keys.
C19_DefaultLayout ==
    (call.op = "create_default" /\ result[1].raised = "") =>
        LET w == call.width
            h == call.height
            candidates == {Position(3, 2), Position(w - 3, h - 3)}
            unkeyed == set_start_and_exit(add_default_walls(
                           initialize_empty_grid(NewMaze(w, h))))
        IN /\ Built.width = w /\ Built.height = h
           /\ \A y \in 0..(h - 1), x \in 0..(w - 1) :
                 (x = 0 \/ x = w - 1 \/ y = 0 \/ y = h - 1) =>
                     Built.grid[y][x] = WALL
           /\ Built.start_position = Position(1, 1)
           /\ Built.grid[1][1] = START
           /\ Built.exit_position = Position(w - 2, h - 2)
           /\ Built.grid[h - 2][w - 2] = EXIT
           /\ Built.key_positions \subseteq candidates
           /\ \A k \in candidates :
                 k \in Built.key_positions <=> unkeyed.grid[k.y][k.x] = EMPTY
           /\ \A y \in 0..(h - 1), x \in 0..(w - 1) :
                 Built.grid[y][x] =
                     IF Position(x, y) \in Built.key_positions
                     THEN KEY ELSE unkeyed.grid[y][x]
           /\ Cardinality(Built.key_positions) <= 2

\* C19 witness: a default layout in which the second key was skipped because
\* its cell was a wall.
C19_Witness ==
    /\ call.op = "create_default" /\ result[1].raised = ""
    /\ Cardinality(Built.key_positions) = 1
    /\ Built.grid[call.height - 3][call.width - 3] = WALL

\* C20: from_layout on equal-length rows gives height = number of rows and
\* width = length of the first row; every character becomes the cell of the
\* table ('#' Wall, '.' Empty, 'S' Start, 'E' Exit, 'K' Key, anything else
\* Empty); the start and exit are at an 'S' and an 'E' of the layout when
\* there is one; the key set is exactly the positions of 'K'; no wall is
\* added.
C20_FromLayout ==
    (call.op = "from_layout" /\ result[1].raised = "") =>
        LET layout == call.layout
            cells == {Position(x, y) : x \in 0..(Len(layout[1]) - 1),
                                       y \in 0..(Len(layout) - 1)}
            char(p) == layout[p.y + 1][p.x + 1]
        IN /\ Built.height = Len(layout)
           /\ Built.width = Len(layout[1])
           /\ \A p \in cells :
                 Built.grid[p.y][p.x] =
                     CASE char(p) = "#" -> WALL
                       [] char(p) = "." -> EMPTY
                       [] char(p) = "S" -> START
                       [] char(p) = "E" -> EXIT
                       [] char(p) = "K" -> KEY
                       [] OTHER -> EMPTY
           /\ (\E p \in cells : char(p) = "S") =>
                 (Built.start_position \in cells
                  /\ char(Built.start_position) = "S")
           /\ (\E p \in cells : char(p) = "E") =>
                 (Built.exit_position \in cells
                  /\ char(Built.exit_position) = "E")
           /\ Built.key_positions = {p \in cells : char(p) = "K"}

\* C20 witness: a layout without border walls and with an unrecognized
\* character was turned into a grid.
C20_Witness ==
    /\ call.op = "from_layout" /\ result[1].raised = ""
    /\ call.layout[2][2] = "x"
    /\ Built.grid[0][0] = KEY
    /\ Built.grid[1][1] = EMPTY

\* ------------------------------------------------------------ C21 .. C30
\* The characters of the table of Maze._char_to_cell_type.
TableChars == {"#", ".", "S", "E", "K"}

\* Every character of the layout is in the table.
Recognized(layout) ==
    \A y \in DOMAIN layout : \A x \in DOMAIN layout[y] :
        layout[y][x] \in TableChars

\* The layout as text, with "@" in place of the character at position.
LayoutWithPlayer(layout, position) ==
    JoinLines(
        [row \in DOMAIN layout |->
            [col \in DOMAIN layout[row] |->
                IF Position(col - 1, row - 1) = position
                THEN "@" ELSE layout[row][col]]],
        1)

\* The last operation was get_maze_display(False) on a session that was
\* created from a layout and is as it was created.
DisplayedAfterFromLayout ==
    /\ call.op = "get_maze_display"
    /\ ~call.fog_of_war
    /\ created.by = "from_layout"
    /\ before = created.game

\* C21 as stated: for every layout that from_layout accepts, the display of
\* the new session without fog of war is the layout, row by row, with the
\* player marker at the actor's initial coordinate, which is the start
\* coordinate.
C21_RoundTripEveryLayout ==
    DisplayedAfterFromLayout =>
        /\ before.character.position = before.maze.start_position
        /\ result[1] = LayoutWithPlayer(created.layout,
                                        before.character.position)

\* C21 amended: the same for every accepted layout whose characters are all
\* in the character table ('#', '.', 'S', 'E', 'K'); an unrecognized
\* character is displayed as '.'.
C21_RoundTrip ==
    DisplayedAfterFromLayout /\ Recognized(created.layout) =>
        /\ before.character.position = before.maze.start_position
        /\ result[1] = LayoutWithPlayer(created.layout,
                                        before.character.position)

C21_Witness ==
    /\ DisplayedAfterFromLayout
    /\ Recognized(created.layout)
    /\ created.layout = LayoutTwice
    /\ result[1] = LayoutWithPlayer(LayoutTwice, Position(4, 1))

\* The positions of the square window of the last get_visible_cells call.
Window ==
    {Position(call.position.x + dx, call.position.y + dy) :
        dx \in (0 - call.visibility_range)..call.visibility_range,
        dy \in (0 - call.visibility_range)..call.visibility_range}

\* C22: get_visible_cells(center, radius) returns exactly the in-bounds
\* positions of the square window around center, each once and each with the
\* cell kind stored there; so it has no out-of-bounds position and at most
\* (2*radius+1)^2 entries, exactly that many when the window of a radius
\* >= 0 is inside the grid (a negative radius has an empty window and gives
\* no entry); and the maze is unchanged.
C22_VisibleCells ==
    call.op = "get_visible_cells" =>
        LET visible == result[1]
            side == 2 * call.visibility_range + 1
            inside == {p \in Window :
                          /\ 0 <= p.x /\ p.x < maze.width
                          /\ 0 <= p.y /\ p.y < maze.height}
        IN /\ VisibleKeys(visible) = inside
           /\ Len(visible) = Cardinality(inside)
           /\ \A i \in DOMAIN visible :
                 visible[i].cell_type =
                     maze.grid[visible[i].pos.y][visible[i].pos.x]
           /\ Len(visible) <= side * side
           /\ call.visibility_range >= 0 /\ inside = Window =>
                 Len(visible) = side * side
           /\ maze = before.maze

\* C22 witnesses: radius 1 around (3,3) of the default 7x7 maze gave 9
\* entries; a window across the border was clipped.
C22_Witness ==
    /\ call.op = "get_visible_cells"
    /\ maze = create_default(7, 7)
    /\ call.position = Position(3, 3)
    /\ call.visibility_range = 1
    /\ Len(result[1]) = 9

C22_WitnessClipped ==
    /\ call.op = "get_visible_cells"
    /\ call.position = Position(0, 0)
    /\ call.visibility_range = 2
    /\ Len(result[1]) = 9

C23_WitnessInvalid ==
    /\ call.op = "Character.move"
    /\ call.direction = <<"n", "o", "r", "t", "h">>
    /\ result[1].raised = "ValueError"

\* The cell at position p of maze m exists and is not a wall.
OpenCell(m, p) ==
    /\ 0 <= p.x /\ p.x < m.width
    /\ 0 <= p.y /\ p.y < m.height
    /\ m.grid[p.y][p.x] # WALL

\* C24: the available moves reported by look_around hold a direction
\* exactly when the actor's position plus its offset is a cell that is not a
\* wall, whether or not a key or the exit is there; and while the status is
\* Playing, move(d) succeeds exactly for the directions d of that list.
C24_AvailableMoves ==
    /\ call.op = "look_around" =>
          LET available == result[1].available_moves IN
          \A d \in DirectionKeys :
              (\E i \in DOMAIN available : available[i] = d)
              <=> OpenCell(before.maze,
                           PosAdd(before.character.position, DIRECTIONS(d)))
    /\ Moved /\ before.status = PLAYING /\ ValidDirection =>
          LET available == look_around(before, 1).available_moves IN
          result[1].success
          <=> \E i \in DOMAIN available : available[i] = Lower(call.direction)

\* C24 witnesses: the list held a direction that leads onto a key and one
\* that leads onto the exit; a move in a direction of the list succeeded.
C24_Witness ==
    /\ call.op = "look_around"
    /\ \E i, j \in DOMAIN result[1].available_moves :
          /\ has_key_at(maze, PosAdd(character.position,
                             DIRECTIONS(result[1].available_moves[i])))
          /\ is_exit(maze, PosAdd(character.position,
                          DIRECTIONS(result[1].available_moves[j])))

C24_WitnessMove ==
    /\ Moved /\ before.status = PLAYING /\ ValidDirection
    /\ result[1].success
    /\ \E i \in DOMAIN get_available_moves(before) :
          get_available_moves(before)[i] = Lower(call.direction)

\* The last operation was one of the three queries.
Queried == call.op \in {"look_around", "get_state", "get_maze_display"}

\* C25: get_state, look_around (with its available-moves computation) and
\* get_maze_display (with or without fog of war) leave the session as it
\* was: actor position, counters, visited set, grid, key set, total-key
\* count and status.
C25_QueriesChangeNothing ==
    Queried =>
        /\ character.position = before.character.position
        /\ character.keys_collected = before.character.keys_collected
        /\ character.moves_made = before.character.moves_made
        /\ character.visited_positions = before.character.visited_positions
        /\ maze.grid = before.maze.grid
        /\ maze.key_positions = before.maze.key_positions
        /\ maze = before.maze
        /\ total_keys = before.total_keys
        /\ status = before.status

\* C25 witnesses: the fog-of-war display was asked for when a cell of the
\* window had not been visited; look_around and get_state were called after
\* the game was won.
C25_Witness ==
    /\ call.op = "get_maze_display"
    /\ call.fog_of_war
    /\ character.moves_made > 0
    /\ ~(VisibleKeys(get_visible_cells(maze, character.position, FogRange))
            \subseteq character.visited_positions)

C25_WitnessLook ==
    call.op = "look_around" /\ status = WON

C25_WitnessState ==
    call.op = "get_state" /\ status = WON

\* The character the displayed text shows for the cell at (x, y): the rows
\* are width characters long and separated by one newline.
Shown(text, x, y) == text[y * (maze.width + 1) + x + 1]

\* Position p is inside the radius-2 window around the actor.
InFogWindow(p) ==
    /\ character.position.x - 2 <= p.x /\ p.x <= character.position.x + 2
    /\ character.position.y - 2 <= p.y /\ p.y <= character.position.y + 2

\* The last operation was get_maze_display(True).
FogDisplayed == call.op = "get_maze_display" /\ call.fog_of_war

\* C26: in the fog-of-war display the actor's cell shows the player marker,
\* any other cell inside the radius-2 window shows its true character, any
\* other cell outside the window but visited shows the dimmed marker, and
\* the rest show the unknown marker; so a cell shown as unknown is outside
\* the window and not visited.
C26_FogDisplay ==
    FogDisplayed =>
        /\ Len(result[1]) = maze.height * (maze.width + 1) - 1
        /\ \A y \in 0..(maze.height - 1), x \in 0..(maze.width - 1) :
              LET p == Position(x, y)
                  shown == Shown(result[1], x, y)
              IN /\ shown =
                       (IF p = character.position THEN "@"
                        ELSE IF InFogWindow(p) THEN CellValue(maze.grid[y][x])
                        ELSE IF p \in character.visited_positions
                        THEN DimmedMarker
                        ELSE "?")
                 /\ shown = "?" =>
                       ~InFogWindow(p) /\ p \notin character.visited_positions
        /\ \A y \in 1..(maze.height - 1) :
              result[1][y * (maze.width + 1)] = "\n"

\* C26 witness: the display showed a dimmed cell (visited, outside the
\* window), an unknown cell, and a visited cell inside the window with its
\* true character.
C26_Witness ==
    /\ FogDisplayed
    /\ \E p, q, v \in {Position(x, y) : x \in 0..(maze.width - 1),
                                        y \in 0..(maze.height - 1)} :
          /\ Shown(result[1], p.x, p.y) = DimmedMarker
          /\ Shown(result[1], q.x, q.y) = "?"
          /\ v \in character.visited_positions
          /\ v # character.position
          /\ Shown(result[1], v.x, v.y) = CellValue(maze.grid[v.y][v.x])

\* The sessions that have the grid, actor and status of session self: they
\* may differ from it in their key total.
SameGridActorStatus(self) ==
    {[self EXCEPT !.total_keys = n] : n \in 0..(self.total_keys + 1)}

C28_ResetRestoresLayout ==
    call.op = "reset" =>
        /\ maze.grid = created.game.maze.grid
        /\ maze.start_position = created.game.maze.start_position
        /\ maze.exit_position = created.game.maze.exit_position
        /\ maze.key_positions = created.game.maze.key_positions

\* The names of the four cardinal directions.
North == <<"n", "o", "r", "t", "h">>
South == <<"s", "o", "u", "t", "h">>
East == <<"e", "a", "s", "t">>
West == <<"w", "e", "s", "t">>

\* C29: the direction table has the names north, south, east and west with
\* the offsets (0,-1), (0,1), (1,0) and (-1,0), and Game.move accepts these
\* names: a move of a playing session in one of them is not turned down as
\* an invalid direction.
C29_CardinalNames ==
    Moved /\ before.status = PLAYING
          /\ call.direction \in {North, South, East, West} =>
        /\ {North, South, East, West} \subseteq DirectionKeys
        /\ DIRECTIONS(North) = Position(0, 0 - 1)
        /\ DIRECTIONS(South) = Position(0, 1)
        /\ DIRECTIONS(East) = Position(1, 0)
        /\ DIRECTIONS(West) = Position(0 - 1, 0)
        /\ result[1].message # InvalidDirectionMessage(call.direction)

\* The global holds a default 7x7 session on which no move has succeeded.
FreshDefaultSession ==
    /\ status = PLAYING
    /\ maze = create_default(7, 7)
    /\ character.position = maze.start_position
    /\ character.moves_made = 0
    /\ character.keys_collected = 0
    /\ character.visited_positions = {maze.start_position}

\* C30: the first tool call finds no session and works on a new default 7x7
\* session; every later call works on the session the call before left (a
\* query leaves it as it was), so get_game_state reports the position and
\* the number of the successful moves made since the session was created;
\* reset_game leaves a fresh default session with move counter 0, key
\* counter 0 and status Playing, whatever was called before.
C30_SessionOwnership ==
    /\ call.op # "none" => Global # <<>> /\ maze.width = 7 /\ maze.height = 7
    /\ before = <<>> /\ call.op \in {"look_around", "get_game_state",
                                      "get_maze_display"}
          => FreshDefaultSession
    /\ before # <<>> /\ call.op \in {"look_around", "get_game_state",
                                      "get_maze_display"}
          => Global = before
    /\ call.op = "get_game_state" =>
          /\ result[1].player.moves_made = created.moved
          /\ result[1].player.position = character.position
          /\ result[1].status = status
    /\ call.op = "move" =>
          character.moves_made = created.moved
    /\ call.op = "reset_game" => FreshDefaultSession /\ created.moved = 0

\* C30 witnesses: get_game_state reported two moves made by earlier move
\* calls; reset_game was called on a session that had moved.
C30_Witness ==
    /\ call.op = "get_game_state"
    /\ result[1].player.moves_made = 2
    /\ result[1].player.position # maze.start_position

C30_WitnessReset ==
    /\ call.op = "reset_game"
    /\ before # <<>>
    /\ before[1].character.moves_made > 2
    /\ character.moves_made = 0

C30_WitnessFirstUse ==
    /\ call.op = "get_game_state"
    /\ before = <<>>
    /\ Global # <<>>

\* ------------------------------------------------------------ C31 .. C36
\* The session the last tool call worked on, as it was before the call: the
\* session of the global, or a new default 7x7 session when there was none.
Served == IF before = <<>> THEN create_new(7, 7) ELSE before[1]

\* C31: the response of the tool move has exactly the keys success, message,
\* key_collected, reached_exit, game_status and new_position (<<>> when the
\* key is absent); game_status is the status after the move, so it is "won"
\* on the move that reaches the exit; new_position is present on a
\* successful move (the position reached) and on a wall collision (the
\* position kept), and absent on an invalid direction and on a game-over
\* rejection.
C31_MoveResponse ==
    call.op = "move" =>
        LET response == result[1]
            rejected == Served.status # PLAYING
            invalid == Lower(call.direction) \notin DirectionKeys
        IN /\ DOMAIN response = {"success", "message", "key_collected",
                                  "reached_exit", "game_status",
                                  "new_position"}
           /\ response.success \in BOOLEAN
           /\ response.key_collected \in BOOLEAN
           /\ response.reached_exit \in BOOLEAN
           /\ response.game_status = status
           /\ response.reached_exit => response.game_status = WON
           /\ rejected \/ invalid =>
                 ~response.success /\ response.new_position = <<>>
           /\ ~rejected /\ ~invalid =>
                 response.new_position = <<character.position>>
           /\ ~rejected /\ ~invalid /\ ~response.success =>
                 character.position = Served.character.position
           /\ response.success =>
                 character.position # Served.character.position

\* C31 witnesses: the move that reached the exit reported "won"; a wall
\* collision carried the position; a game-over rejection carried none.
C31_Witness ==
    /\ call.op = "move"
    /\ result[1].reached_exit
    /\ result[1].game_status = WON
    /\ Served.status = PLAYING

C31_WitnessWall ==
    /\ call.op = "move"
    /\ ~result[1].success
    /\ result[1].new_position = <<character.position>>

C31_WitnessOver ==
    /\ call.op = "move"
    /\ Served.status = WON
    /\ result[1].new_position = <<>>

\* The radius the tool look_around is to pass on for the radius r it got.
Clamped(r) == IF r <= 0 THEN 1 ELSE IF r >= 6 THEN 5 ELSE r

\* C32: for every radius r the tool look_around returns what
\* Game.look_around returns for the radius max(1, min(5, r)): r <= 0 gives
\* the result of radius 1 and r >= 6 the result of radius 5; the cells it
\* lists are those of that window inside the grid.
C32_ClampedRange ==
    call.op = "look_around" =>
        LET r == Clamped(call.visibility_range)
            cells == result[1].visible_cells
            p == Served.character.position
        IN /\ result[1] = look_around(Served, r)
           /\ Len(cells.walls) + Len(cells.empty) + Len(cells.keys)
                  + Len(cells.exit) + Len(cells.start)
              = Cardinality({q \in {Position(x, y) : x \in (p.x - r)..(p.x + r),
                                                     y \in (p.y - r)..(p.y + r)} :
                                /\ 0 <= q.x /\ q.x < maze.width
                                /\ 0 <= q.y /\ q.y < maze.height})

\* C32 witnesses: radius 0 gave the 9 cells of radius 1; radius 7 gave the
\* result of radius 5, which differs from that of radius 4.
C32_Witness ==
    /\ call.op = "look_around"
    /\ call.visibility_range = 0
    /\ Len(result[1].visible_cells.walls) + Len(result[1].visible_cells.empty)
          + Len(result[1].visible_cells.keys)
          + Len(result[1].visible_cells.exit)
          + Len(result[1].visible_cells.start) = 9

C32_WitnessHigh ==
    /\ call.op = "look_around"
    /\ call.visibility_range = 7
    /\ result[1] = look_around(Served, 5)
    /\ result[1] # look_around(Served, 4)

\* How often the character occurs in the layout the session was created
\* from.
CountIn(layout, char) ==
    Cardinality({p \in {<<y, x>> : y \in DOMAIN layout,
                                   x \in 1..MaxDim} :
                    p[2] \in DOMAIN layout[p[1]] /\ layout[p[1]][p[2]] = char})

\* The session was created from the default layout.
FromDefault == created.by = "create_new"

\* The session was created from a layout with a Start character.
FromLayoutWithStart ==
    created.by = "from_layout" /\ CountIn(created.layout, "S") >= 1

\* The session was created from a layout with one Start and one Exit
\* character.
FromLayoutWithOneStartOneExit ==
    /\ created.by = "from_layout"
    /\ CountIn(created.layout, "S") = 1
    /\ CountIn(created.layout, "E") = 1

\* C33: in a session created from the default layout or from a layout with
\* one Start and one Exit character, after any moves and resets the status
\* is Won exactly when the actor stands on the exit coordinate.
C33_WonIffOnExit ==
    FromDefault \/ FromLayoutWithOneStartOneExit =>
        (status = WON <=> character.position = maze.exit_position)

\* C33 witnesses: a session created from a layout was won and then reset,
\* and is Playing at the start; a session stands on the exit and is Won.
C33_Witness ==
    /\ FromLayoutWithOneStartOneExit
    /\ call.op = "reset"
    /\ before.status = WON
    /\ status = PLAYING
    /\ character.position # maze.exit_position

C33_WitnessWon ==
    /\ FromLayoutWithOneStartOneExit
    /\ status = WON
    /\ character.position = maze.exit_position

\* C34: in a session created from the default layout or from a layout with
\* a Start character, after any moves and resets the actor's position is a
\* cell of the grid that is not a wall, and so is every visited position.
C34_ActorOnOpenCells ==
    FromDefault \/ FromLayoutWithStart =>
        /\ OpenCell(maze, character.position)
        /\ \A p \in character.visited_positions : OpenCell(maze, p)

\* C34 witnesses: a move into a wall and a move off the grid were turned
\* down after the actor had visited several cells; a session created from a
\* layout was reset after the actor had visited a cell that is a wall of
\* the default layout.
C34_Witness ==
    /\ FromLayoutWithStart
    /\ Moved /\ ValidDirection /\ before.status = PLAYING
    /\ ~result[1].success
    /\ ~is_valid_position(maze, Destination)
    /\ Cardinality(character.visited_positions) > 2

C34_WitnessReset ==
    /\ FromLayoutWithStart
    /\ call.op = "reset"
    /\ \E p \in before.character.visited_positions :
          is_valid_position(maze, p) /\ ~OpenCell(maze, p)

\* C35: in a session created from the default layout or from a layout with
\* one Start and one Exit character, the key set never holds the start or
\* the exit coordinate, and no move returns both key_collected and
\* reached_exit.
C35_NoKeyOnStartOrExit ==
    FromDefault \/ FromLayoutWithOneStartOneExit =>
        /\ maze.start_position \notin maze.key_positions
        /\ maze.exit_position \notin maze.key_positions
        /\ Moved => ~(result[1].key_collected /\ result[1].reached_exit)

\* C35 witness: in a session whose key had been collected by an earlier
\* move, a move reached the exit without collecting a key.
C35_Witness ==
    /\ FromLayoutWithOneStartOneExit
    /\ Moved
    /\ result[1].reached_exit
    /\ ~result[1].key_collected
    /\ character.keys_collected > 0

\* C36: in a session created from the default layout or from a layout with
\* a Start character, the actor never stands on a coordinate of the key
\* set; a move collects a key exactly when it lands on a coordinate that was
\* in the key set, and that coordinate is then no longer in it, so no key is
\* collected twice; nothing but such a move changes the key counter upwards.
C36_KeyConsumedByLanding ==
    FromDefault \/ FromLayoutWithStart =>
        /\ character.position \notin maze.key_positions
        /\ Moved /\ result[1].success =>
              /\ result[1].key_collected
                    <=> character.position \in before.maze.key_positions
              /\ character.keys_collected =
                    before.character.keys_collected
                    + (IF result[1].key_collected THEN 1 ELSE 0)
              /\ maze.key_positions =
                    before.maze.key_positions \ {character.position}
        /\ ~(Moved /\ result[1].success) /\ call.op \notin {"create_new", "from_layout"} =>
              character.keys_collected <= before.character.keys_collected

\* C36 witness: the actor came back to a cell whose key it had collected
\* earlier, and collected nothing there.
C36_Witness ==
    /\ FromLayoutWithStart
    /\ Moved /\ result[1].success
    /\ ~result[1].key_collected
    /\ character.position \in created.game.maze.key_positions
    /\ character.keys_collected > 0
    /\ maze.width = created.game.maze.width
    /\ maze.grid[character.position.y][character.position.x] = EMPTY

====
